---- MODULE Spec2Model ----
(***************************************************************************)
(* The JarvisInterface session controller and its useAudioAnalyzer hook    *)
(* (web_gui/src/components/AudioAnalyzer.jsx) as a state machine.          *)
(*                                                                         *)
(* Every step is one task of the browser's event loop: an effect (mount,   *)
(* cleanup), a timer callback, a WebSocket event, a UI handler, the        *)
(* continuation of an await, an animation frame.  React is taken to have   *)
(* re-rendered (and re-run its effects) between two tasks, so a handler    *)
(* reads the state of the latest render; the closures that outlive a       *)
(* render (a pending startListening, a running analyzeAudio loop) carry    *)
(* the values they captured.                                               *)
(*                                                                         *)
(* Numbers: intensity and audio levels are in hundredths (0.5 is 50);      *)
(* reconnect delays are in 1/64 ms, so that 10000 * 1.5^n is an integer    *)
(* wherever it is below the cap; the clock is in ms.                       *)
(***************************************************************************)
EXTENDS Integers, Sequences, FiniteSets, TLC

\* ------------------------------------------------------------------ bounds
MaxSockets == 2      \* WebSocket objects that are not yet garbage at one time
MaxSettle == 1       \* pending 100 ms post-open timers
MaxOrphans == 1      \* pending reconnect timers whose handle was overwritten
MaxFailures == 21    \* the count of consecutive unclean closes saturates here
MaxHist == 3         \* conversation entries
MaxBuf == 2          \* characters in the streaming buffer
MaxNow == 4000       \* the clock stops here
MaxLoops == 2        \* analyzeAudio loops running at one time
MaxStarts == 1       \* startListening calls awaiting getUserMedia

\* ------------------------------------------------------- program constants
maxReconnectAttempts == 20
CloseBaseDelay == 10000
CloseMaxDelay == 120000
CatchBaseDelay == 5000
CatchMaxDelay == 60000
DedupWindow == 2000
DelayScale == 2 * 2 * 2 * 2 * 2 * 2    \* delays are kept in 1/64 ms
TickMs == DedupWindow \div 2          \* granularity of the modelled clock

Slots == 1..MaxSockets
Texts == {"a", "b"}
Modes == {"idle", "listening", "thinking", "speaking"}
Levels == {0, 90}
AudioLevelModes == {"speaking", "listening"}   \* data.mode of an audio_level
\* data.intensity of a mode_change: absent ({}), or the singleton of its value
PayloadIntensities == {{}, {0}, {60}}
\* what the user types: a sequence of characters
UserInputs == {<<>>, <<" ">>, <<"a">>, <<" ", "b", " ">>}

VARIABLES
  \* --- connection (JarvisInterface refs and state)
  mounted,              \* "init" | "mounted" | "unmounted": the mount effect
  wsRef,                \* 0 (null) or the slot of wsRef.current
  readyState,           \* slot -> "FREE" | "CONNECTING" | "OPEN" | "CLOSING" | "CLOSED"
  onclose,              \* slot -> the socket still has its onclose handler
  isConnectingRef,
  reconnectTimeoutRef,  \* [set, attempt, timeout]: null, or {attempt, timeout}
  orphanTimers,         \* pending reconnect timers no ref holds the handle of
  settleTimers,         \* pending 100 ms timers of onopen
  isConnected,
  \* --- conversation
  conversationHistory, lastTextInputRef, responseRef, currentResponse,
  isWaitingForResponse, userText, now,
  \* --- mode, intensity, microphone
  mode, intensity, micEnabled,
  \* --- useAudioAnalyzer
  isListening, audioContext, microphoneRef, analyzerRef,
  loops,                \* the captured mode of each running analyzeAudio loop
  animationFrameRef,    \* index in loops of the frame the ref names, 0 if none
  starts,               \* startListening calls awaiting getUserMedia
  \* --- history variables (not program state)
  lastOp,               \* the handler the last step ran, with its input
  sent,                 \* the messages the last step transmitted
  sendRet,              \* what sendWebSocketMessage returned in the last step
  scheduledDelay,       \* delay of the reconnect timer scheduled last
  uncleanCloses,        \* unclean closes since the last open or cleanup
  lastOpened,           \* the slot of the socket whose onopen ran last, 0 if none
  lastMicSent,          \* type of the last microphone event transmitted since
                        \* the last onopen, "none" if none
  lastAppended,         \* the entry addToConversation appended last
  lastUserMsg,          \* the user entry appended last
  lastRecv,             \* text -> when a user_text with it was received last
  streamed,             \* the assistant_stream texts received since
                        \* responseRef was emptied last
  lastSend              \* the entry sendTextMessage appended last, with the
                        \* length of the history it left

connVars == <<mounted, wsRef, readyState, onclose, isConnectingRef,
              reconnectTimeoutRef, orphanTimers, settleTimers, isConnected>>
chatVars == <<conversationHistory, lastTextInputRef, responseRef,
              currentResponse, isWaitingForResponse, userText, now>>
modeVars == <<mode, intensity, micEnabled>>
monitorVars == <<isListening, audioContext, microphoneRef, analyzerRef,
                 loops, animationFrameRef, starts>>
connHist == <<scheduledDelay, uncleanCloses, lastOpened, lastMicSent>>
chatHist == <<lastAppended, lastUserMsg, lastRecv, streamed, lastSend>>
progVars == <<connVars, chatVars, modeVars, monitorVars>>
vars == <<connVars, chatVars, modeVars, monitorVars,
          lastOp, sent, sendRet, connHist, chatHist>>

\* ----------------------------------------------------------------- helpers
Min(a, b) == IF a <= b THEN a ELSE b
Max(a, b) == IF a >= b THEN a ELSE b

RECURSIVE Pow(_, _)
Pow(b, n) == IF n = 0 THEN 1 ELSE b * Pow(b, n - 1)

NullRef == [set |-> FALSE, attempt |-> 0, timeout |-> "none"]
NoEntry == [set |-> FALSE, role |-> "", text |-> "", timestamp |-> 0]
NoText == [set |-> FALSE, text |-> "", timestamp |-> 0]

Op(name) == [op |-> name, text |-> "", mode |-> "", level |-> 0, clean |-> FALSE,
             caller |-> "", ok |-> FALSE, payload |-> {}, buffer |-> ""]
Msg(type, text) == [type |-> type, text |-> text]

\* reconnectTimeoutRef.current?.attempt || 0
AttemptOf(ref) == IF ref.set THEN ref.attempt ELSE 0

\* Math.min(base * Math.pow(1.5, attempt), cap), in 1/64 ms.  1.5^attempt is
\* 3^attempt / 2^attempt; from attempt 7 on it exceeds 12 = cap / base of
\* both formulas, and below that base * 64 * 3^attempt is a multiple of
\* 2^attempt.
BackoffDelay(base, cap, attempt) ==
  IF attempt >= 7 \/ base * Pow(3, attempt) >= cap * Pow(2, attempt)
  THEN cap * DelayScale
  ELSE (base * DelayScale * Pow(3, attempt)) \div Pow(2, attempt)

\* A closed socket nothing refers to any more is garbage: its slot is free.
Collect(rs, ref) ==
  [s \in Slots |-> IF rs[s] = "CLOSED" /\ s # ref THEN "FREE" ELSE rs[s]]
Handlers(h, rs) == [s \in Slots |-> h[s] /\ rs[s] # "FREE"]

FreeSlots == {s \in Slots : readyState[s] = "FREE"}
NewSlot == CHOOSE s \in FreeSlots : \A t \in FreeSlots : s <= t
Alive == {s \in Slots : readyState[s] \in {"CONNECTING", "OPEN"}}

Sat(n) == Min(n, MaxFailures)

Init ==
  /\ mounted = "init"
  /\ wsRef = 0
  /\ readyState = [s \in Slots |-> "FREE"]
  /\ onclose = [s \in Slots |-> FALSE]
  /\ isConnectingRef = FALSE
  /\ reconnectTimeoutRef = NullRef
  /\ orphanTimers = 0
  /\ settleTimers = 0
  /\ isConnected = FALSE
  /\ conversationHistory = <<>>
  /\ lastTextInputRef = NoText
  /\ responseRef = ""
  /\ currentResponse = ""
  /\ isWaitingForResponse = FALSE
  /\ userText = <<>>
  /\ now = 0
  /\ mode = "idle"
  /\ intensity = 50
  /\ micEnabled = FALSE
  /\ isListening = FALSE
  /\ audioContext = "null"
  /\ microphoneRef = FALSE
  /\ analyzerRef = FALSE
  /\ loops = <<>>
  /\ animationFrameRef = 0
  /\ starts = <<>>
  /\ lastOp = Op("init")
  /\ sent = <<>>
  /\ sendRet = "none"
  /\ scheduledDelay = 0
  /\ uncleanCloses = 0
  /\ lastOpened = 0
  /\ lastMicSent = "none"
  /\ lastAppended = NoEntry
  /\ lastUserMsg = NoText
  /\ lastRecv = [t \in Texts |-> -1]
  /\ streamed = <<>>
  /\ lastSend = [set |-> FALSE, text |-> "", timestamp |-> 0, len |-> 0]

\* ------------------------------------------------------- useAudioAnalyzer
RemoveAt(q, i) == [j \in 1..(Len(q) - 1) |-> IF j < i THEN q[j] ELSE q[j + 1]]

\* The onAudioLevel callback of the render that captured mode m.
OnAudioLevel(m, prevIntensity, level) ==
  IF m = "listening" \/ m = "idle"
  THEN LET newIntensity == Max(10, (level * 150) \div 100)
       IN IF (IF newIntensity >= prevIntensity THEN newIntensity - prevIntensity
              ELSE prevIntensity - newIntensity) > 1
          THEN newIntensity ELSE prevIntensity
  ELSE prevIntensity

\* stopListening(): cancels the frame the ref names (a stale id cancels
\* nothing), disconnects the microphone, closes and drops the context.
StopListening ==
  /\ loops' = IF animationFrameRef # 0 THEN RemoveAt(loops, animationFrameRef) ELSE loops
  /\ animationFrameRef' = 0
  /\ microphoneRef' = FALSE
  /\ audioContext' = "null"
  /\ isListening' = FALSE
  /\ UNCHANGED <<analyzerRef, starts>>

\* startListening() up to its await of getUserMedia: the context is created
\* if there is none, and the call is left pending with the mode its render
\* captured and with who awaits it.  (A context is taken to be running from
\* its creation on, so the resume() of a suspended one is not a step.)
StartListening(caller) ==
  /\ Len(starts) < MaxStarts
  /\ audioContext' = "running"
  /\ starts' = Append(starts, [caller |-> caller, mode |-> mode])
  /\ UNCHANGED <<isListening, microphoneRef, analyzerRef, loops, animationFrameRef>>

\* ------------------------------------------------------------- connection
\* sendWebSocketMessage(message): what it transmits and what it returns.
CanSend == wsRef # 0 /\ readyState[wsRef] = "OPEN"

\* Mutant of sendWebSocketMessage: readyState is not looked at.
sendWebSocketMessage_NoStateCheck(message) ==
  IF wsRef # 0
  THEN sent' = <<message>> /\ sendRet' = "true"
  ELSE sent' = <<>> /\ sendRet' = "false"

sendWebSocketMessage(message) ==
  IF CanSend
  THEN sent' = <<message>> /\ sendRet' = "true"
  ELSE sent' = <<>> /\ sendRet' = "false"

NoSend == sent' = <<>> /\ sendRet' = "none"

\* History: the microphone event the step transmitted, if any, is the last.
MicSent ==
  /\ lastMicSent' = IF sent' # <<>> THEN sent'[1].type ELSE lastMicSent
  /\ UNCHANGED <<scheduledDelay, uncleanCloses, lastOpened>>

\* connectToJarvis(), called with the ref and the orphan count as they are
\* at the call; throws: whether the WebSocket constructor throws.
connectToJarvis(ref, orphans, throws) ==
  LET ref1 == IF ref.set THEN NullRef ELSE ref   \* clearTimeout, then null
  IN
  /\ orphanTimers' = orphans
  /\ IF isConnectingRef \/ (wsRef # 0 /\ readyState[wsRef] = "CONNECTING") THEN
       /\ reconnectTimeoutRef' = ref1
       /\ UNCHANGED <<wsRef, readyState, onclose, isConnectingRef, isConnected, connHist>>
     ELSE IF wsRef # 0 /\ readyState[wsRef] = "OPEN" THEN
       /\ reconnectTimeoutRef' = ref1
       /\ isConnected' = TRUE
       /\ UNCHANGED <<wsRef, readyState, onclose, isConnectingRef, connHist>>
     ELSE IF ref1.set /\ ref1.attempt >= maxReconnectAttempts THEN
       /\ reconnectTimeoutRef' = ref1
       /\ UNCHANGED <<wsRef, readyState, onclose, isConnectingRef, isConnected, connHist>>
     ELSE IF throws THEN
       \* catch: new WebSocket threw, wsRef.current is what it was
       /\ isConnectingRef' = FALSE
       /\ isConnected' = FALSE
       /\ IF ~ref1.set \/ ref1.attempt < maxReconnectAttempts THEN
            /\ scheduledDelay' = BackoffDelay(CatchBaseDelay, CatchMaxDelay, AttemptOf(ref1))
            /\ reconnectTimeoutRef' =
                 [set |-> TRUE, attempt |-> AttemptOf(ref1) + 1, timeout |-> "pending"]
          ELSE
            /\ reconnectTimeoutRef' = ref1
            /\ UNCHANGED scheduledDelay
       /\ UNCHANGED <<wsRef, readyState, onclose, uncleanCloses, lastOpened, lastMicSent>>
     ELSE
       /\ FreeSlots # {}
       /\ isConnectingRef' = TRUE
       /\ wsRef' = NewSlot
       /\ readyState' = Collect([readyState EXCEPT ![NewSlot] = "CONNECTING"], NewSlot)
       /\ onclose' = Handlers([onclose EXCEPT ![NewSlot] = TRUE], readyState')
       /\ reconnectTimeoutRef' = ref1
       /\ UNCHANGED <<isConnected, connHist>>

\* The mount effect: connectToJarvis().  Under StrictMode React runs the
\* effect, its cleanup and the effect again in one commit, with nothing in
\* between; a cleanup at any other time is the unmount and is final.
Mount ==
  /\ \/ mounted = "init"
     \/ mounted = "unmounted" /\ lastOp.op = "teardown" /\ lastOp.caller = "strict"
  /\ mounted' = "mounted"
  /\ \E throws \in BOOLEAN : connectToJarvis(reconnectTimeoutRef, orphanTimers, throws)
  /\ lastOp' = Op("mount")
  /\ NoSend
  /\ UNCHANGED <<settleTimers, chatVars, modeVars, monitorVars, chatHist>>

\* A reconnect timer fires: setTimeout(connectToJarvis, reconnectDelay).  The
\* 100 ms timer of an earlier onopen is due before any reconnect timer.
PendingTimers ==
  (IF reconnectTimeoutRef.set /\ reconnectTimeoutRef.timeout = "pending"
   THEN {"ref"} ELSE {})
  \cup (IF orphanTimers > 0 THEN {"orphan"} ELSE {})

TimerFire ==
  /\ settleTimers = 0
  /\ \E which \in PendingTimers, throws \in BOOLEAN :
       IF which = "ref"
       THEN connectToJarvis([reconnectTimeoutRef EXCEPT !.timeout = "fired"],
                            orphanTimers, throws)
       ELSE connectToJarvis(reconnectTimeoutRef, orphanTimers - 1, throws)
  /\ lastOp' = Op("timer")
  /\ NoSend
  /\ UNCHANGED <<mounted, settleTimers, chatVars, modeVars, monitorVars, chatHist>>

\* The connection of socket s is established: onopen.
SocketOpen(s) ==
  /\ readyState[s] = "CONNECTING"
  /\ settleTimers < MaxSettle
  /\ readyState' = [readyState EXCEPT ![s] = "OPEN"]
  /\ isConnectingRef' = FALSE
  /\ isConnected' = TRUE
  /\ orphanTimers' = orphanTimers +
       (IF reconnectTimeoutRef.set /\ reconnectTimeoutRef.timeout = "pending" THEN 1 ELSE 0)
  /\ reconnectTimeoutRef' = [set |-> TRUE, attempt |-> 0, timeout |-> "none"]
  /\ settleTimers' = settleTimers + 1
  /\ uncleanCloses' = 0
  /\ lastOpened' = s
  /\ lastMicSent' = "none"
  /\ lastOp' = Op("onopen")
  /\ NoSend
  /\ UNCHANGED <<mounted, wsRef, onclose, scheduledDelay,
                 chatVars, modeVars, monitorVars, chatHist>>

\* Mutant of SettleFire: the timer sends nothing.
SettleFire_SendsNothing ==
  /\ settleTimers > 0
  /\ settleTimers' = settleTimers - 1
  /\ sent' = <<>>
  /\ sendRet' = "none"
  /\ MicSent
  /\ lastOp' = Op("settle")
  /\ UNCHANGED <<mounted, wsRef, readyState, onclose, isConnectingRef,
                 reconnectTimeoutRef, orphanTimers, isConnected,
                 chatVars, modeVars, monitorVars, chatHist>>

\* Mutant of SettleFire: enable_mic is sent whatever micEnabledRef holds.
SettleFire_AlwaysEnable ==
  /\ settleTimers > 0
  /\ settleTimers' = settleTimers - 1
  /\ IF wsRef # 0 /\ readyState[wsRef] = "OPEN"
     THEN sent' = <<Msg("enable_mic", "")>>
     ELSE sent' = <<>>
  /\ sendRet' = "none"
  /\ MicSent
  /\ lastOp' = Op("settle")
  /\ UNCHANGED <<mounted, wsRef, readyState, onclose, isConnectingRef,
                 reconnectTimeoutRef, orphanTimers, isConnected,
                 chatVars, modeVars, monitorVars, chatHist>>

\* The 100 ms timer of onopen: sends the microphone state on wsRef.current
\* if that is open.
SettleFire ==
  /\ settleTimers > 0
  /\ settleTimers' = settleTimers - 1
  /\ IF wsRef # 0 /\ readyState[wsRef] = "OPEN"
     THEN sent' = <<Msg(IF micEnabled THEN "enable_mic" ELSE "disable_mic", "")>>
     ELSE sent' = <<>>
  /\ sendRet' = "none"
  /\ MicSent
  /\ lastOp' = Op("settle")
  /\ UNCHANGED <<mounted, wsRef, readyState, onclose, isConnectingRef,
                 reconnectTimeoutRef, orphanTimers, isConnected,
                 chatVars, modeVars, monitorVars, chatHist>>

\* The peer starts the closing handshake of an open socket.
SocketStartClosing(s) ==
  /\ readyState[s] = "OPEN"
  /\ readyState' = [readyState EXCEPT ![s] = "CLOSING"]
  /\ lastOp' = Op("closing")
  /\ NoSend
  /\ UNCHANGED <<mounted, wsRef, onclose, isConnectingRef, reconnectTimeoutRef,
                 orphanTimers, settleTimers, isConnected,
                 chatVars, modeVars, monitorVars, connHist, chatHist>>

\* Mutant of OnClose: the reconnect is scheduled whatever wasClean says.
OnClose_IgnoresWasClean(clean) ==
  /\ isConnectingRef' = FALSE
  /\ isConnected' = FALSE
  /\ orphanTimers < MaxOrphans \/ ~reconnectTimeoutRef.set
       \/ reconnectTimeoutRef.timeout # "pending"
  /\ scheduledDelay' =
       BackoffDelay(CloseBaseDelay, CloseMaxDelay, AttemptOf(reconnectTimeoutRef))
  /\ orphanTimers' = orphanTimers +
       (IF reconnectTimeoutRef.set /\ reconnectTimeoutRef.timeout = "pending"
        THEN 1 ELSE 0)
  /\ reconnectTimeoutRef' =
       [set |-> TRUE, attempt |-> AttemptOf(reconnectTimeoutRef) + 1,
        timeout |-> "pending"]
  /\ uncleanCloses' = Sat(uncleanCloses + 1)
  /\ UNCHANGED <<lastOpened, lastMicSent>>

\* onclose of a socket that still has the handler.
OnClose(clean) ==
  /\ isConnectingRef' = FALSE
  /\ isConnected' = FALSE
  /\ IF ~clean THEN
       /\ orphanTimers < MaxOrphans \/ ~reconnectTimeoutRef.set
            \/ reconnectTimeoutRef.timeout # "pending"
       /\ scheduledDelay' =
            BackoffDelay(CloseBaseDelay, CloseMaxDelay, AttemptOf(reconnectTimeoutRef))
       /\ orphanTimers' = orphanTimers +
            (IF reconnectTimeoutRef.set /\ reconnectTimeoutRef.timeout = "pending"
             THEN 1 ELSE 0)
       /\ reconnectTimeoutRef' =
            [set |-> TRUE, attempt |-> AttemptOf(reconnectTimeoutRef) + 1,
             timeout |-> "pending"]
       /\ uncleanCloses' = Sat(uncleanCloses + 1)
       /\ UNCHANGED <<lastOpened, lastMicSent>>
     ELSE UNCHANGED <<reconnectTimeoutRef, orphanTimers, connHist>>

\* onerror alone (the socket has no onclose handler any more).
OnError ==
  /\ isConnectingRef' = FALSE
  /\ isConnected' = FALSE
  /\ UNCHANGED <<reconnectTimeoutRef, orphanTimers, connHist>>

\* The connection of socket s is closed: readyState becomes CLOSED, then the
\* error event is fired if the connection failed, then the close event.  A
\* connection that was never established cannot close cleanly.
SocketClosed(s, clean) ==
  /\ readyState[s] \in {"CONNECTING", "OPEN", "CLOSING"}
  /\ clean => readyState[s] # "CONNECTING"
  /\ readyState' = Collect([readyState EXCEPT ![s] = "CLOSED"], wsRef)
  /\ onclose' = Handlers(onclose, readyState')
  /\ IF onclose[s] THEN OnClose(clean)
     ELSE IF ~clean THEN OnError
     ELSE UNCHANGED <<isConnectingRef, isConnected, reconnectTimeoutRef,
                      orphanTimers, connHist>>
  /\ lastOp' = [Op(IF onclose[s] THEN "onclose" ELSE "closed") EXCEPT !.clean = clean]
  /\ NoSend
  /\ UNCHANGED <<mounted, wsRef, settleTimers, chatVars, modeVars, monitorVars, chatHist>>

\* Which cleanup a step is: the one of StrictMode's double invocation runs
\* directly after the mount effect.
CleanupOf ==
  IF lastOp.op = "mount" \/ (lastOp.op = "teardown" /\ lastOp.caller = "strict")
  THEN "strict" ELSE "unmount"

\* Mutant of Teardown: the socket is dropped without close().
Teardown_NoClose ==
  /\ mounted \in {"mounted", "unmounted"}
  /\ mounted' = "unmounted"
  /\ reconnectTimeoutRef' = NullRef
  /\ wsRef' = 0
  /\ readyState' = Collect(readyState, 0)
  /\ onclose' = Handlers([s \in Slots |-> onclose[s] /\ s # wsRef], readyState')
  /\ StopListening
  /\ isConnectingRef' = FALSE
  /\ uncleanCloses' = 0
  /\ lastOp' = [Op("teardown") EXCEPT !.caller = CleanupOf]
  /\ NoSend
  /\ UNCHANGED <<orphanTimers, settleTimers, isConnected, scheduledDelay,
                 lastOpened, lastMicSent, chatVars, modeVars, chatHist>>

\* Mutant of Teardown: the pending reconnect timer is not cleared.
Teardown_KeepsTimer ==
  /\ mounted \in {"mounted", "unmounted"}
  /\ mounted' = "unmounted"
  /\ UNCHANGED reconnectTimeoutRef
  /\ wsRef' = 0
  /\ readyState' = Collect(
       [s \in Slots |-> IF s = wsRef /\ readyState[s] \in {"CONNECTING", "OPEN"}
                        THEN "CLOSING" ELSE readyState[s]], 0)
  /\ onclose' = Handlers([s \in Slots |-> onclose[s] /\ s # wsRef], readyState')
  /\ StopListening
  /\ isConnectingRef' = FALSE
  /\ uncleanCloses' = 0
  /\ lastOp' = [Op("teardown") EXCEPT !.caller = CleanupOf]
  /\ NoSend
  /\ UNCHANGED <<orphanTimers, settleTimers, isConnected, scheduledDelay,
                 lastOpened, lastMicSent, chatVars, modeVars, chatHist>>

\* The cleanup of the mount effect.
Teardown ==
  /\ mounted \in {"mounted", "unmounted"}
  /\ mounted' = "unmounted"
  /\ reconnectTimeoutRef' = NullRef
  /\ wsRef' = 0
  /\ readyState' = Collect(
       [s \in Slots |-> IF s = wsRef /\ readyState[s] \in {"CONNECTING", "OPEN"}
                        THEN "CLOSING" ELSE readyState[s]], 0)
  /\ onclose' = Handlers([s \in Slots |-> onclose[s] /\ s # wsRef], readyState')
  /\ StopListening
  /\ isConnectingRef' = FALSE
  /\ uncleanCloses' = 0
  /\ lastOp' = [Op("teardown") EXCEPT !.caller = CleanupOf]
  /\ NoSend
  /\ UNCHANGED <<orphanTimers, settleTimers, isConnected, scheduledDelay,
                 lastOpened, lastMicSent, chatVars, modeVars, chatHist>>

NextConn ==
  \/ Mount
  \/ TimerFire
  \/ \E s \in Slots : SocketOpen(s)
  \/ SettleFire
  \/ \E s \in Slots : SocketStartClosing(s)
  \/ \E s \in Slots, clean \in BOOLEAN : SocketClosed(s, clean)
  \/ Teardown

\* The connection lifecycle alone.
SpecConn == Init /\ [][NextConn]_vars

\* ------------------------------------------------------------- microphone
\* toggleMicrophone(), up to its await when the microphone is disabled.
ToggleMicrophone ==
  /\ mounted = "mounted"
  /\ IF ~micEnabled THEN
       /\ StartListening("toggle")
       /\ NoSend
       /\ UNCHANGED micEnabled
     ELSE
       /\ StopListening
       /\ micEnabled' = FALSE
       /\ sendWebSocketMessage(Msg("disable_mic", ""))
  /\ MicSent
  /\ lastOp' = Op("toggle")
  /\ UNCHANGED <<connVars, chatVars, mode, intensity, chatHist>>

\* getUserMedia of the i-th pending startListening settles.  Granted, with
\* the context still there, the rest of startListening runs: the source and
\* the analyser are made and analyzeAudio() runs once and requests a frame.
\* Rejected, or with the context dropped by a stopListening meanwhile (a
\* TypeError), the catch of startListening logs and startListening returns
\* normally.  Then the caller that awaited it goes on: toggleMicrophone
\* marks the microphone enabled and sends enable_mic.
GetUserMediaSettled(i, granted, level) ==
  LET st == starts[i]
      ok == granted /\ audioContext # "null"
  IN
  /\ starts' = RemoveAt(starts, i)
  /\ IF ok THEN
       /\ Len(loops) < MaxLoops
       /\ microphoneRef' = TRUE
       /\ analyzerRef' = TRUE
       /\ isListening' = TRUE
       /\ intensity' = OnAudioLevel(st.mode, intensity, level)
       /\ loops' = Append(loops, st.mode)
       /\ animationFrameRef' = Len(loops) + 1
       /\ UNCHANGED audioContext
     ELSE
       /\ level = 0
       /\ UNCHANGED <<intensity, isListening, audioContext, microphoneRef,
                      analyzerRef, loops, animationFrameRef>>
  /\ IF st.caller = "toggle" THEN
       /\ micEnabled' = TRUE
       /\ sendWebSocketMessage(Msg("enable_mic", ""))
     ELSE
       /\ NoSend
       /\ UNCHANGED micEnabled
  /\ lastOp' = [Op("getUserMedia") EXCEPT !.caller = st.caller, !.ok = ok,
                                          !.level = level]
  /\ MicSent
  /\ UNCHANGED <<connVars, chatVars, mode, chatHist>>

\* An animation frame of the i-th running loop: analyzeAudio().
AnimationFrame(i, level) ==
  /\ analyzerRef
  /\ intensity' = OnAudioLevel(loops[i], intensity, level)
  /\ animationFrameRef' = i
  /\ lastOp' = [Op("frame") EXCEPT !.mode = loops[i], !.level = level]
  /\ NoSend
  /\ UNCHANGED <<connVars, chatVars, mode, micEnabled, isListening, audioContext,
                 microphoneRef, analyzerRef, loops, starts, connHist, chatHist>>

\* The connection with the microphone toggle.
NextMic ==
  \/ Mount
  \/ TimerFire
  \/ \E s \in Slots : SocketOpen(s)
  \/ SettleFire
  \/ \E s \in Slots : SocketStartClosing(s)
  \/ \E s \in Slots, clean \in BOOLEAN : SocketClosed(s, clean)
  \/ Teardown
  \/ ToggleMicrophone
  \/ \E i \in 1..Len(starts), granted \in BOOLEAN, level \in Levels :
       GetUserMediaSettled(i, granted, level)

SpecMic == Init /\ [][NextMic]_vars

\* -------------------------------------------------- handleJarvisMessage
\* onmessage is delivered on a socket that is OPEN.
Receiving == \E s \in Slots : readyState[s] = "OPEN"

Entry(role, text) == [role |-> role, text |-> text]

\* Mutant of addToConversation: lastTextInputRef is not recorded.
addToConversation_NoRecord(role, text) ==
  /\ Len(conversationHistory) < MaxHist
  /\ UNCHANGED lastTextInputRef
  /\ conversationHistory' = Append(conversationHistory, Entry(role, text))
  /\ lastAppended' = [set |-> TRUE, role |-> role, text |-> text, timestamp |-> now]
  /\ lastUserMsg' = IF role = "user"
                    THEN [set |-> TRUE, text |-> text, timestamp |-> now]
                    ELSE lastUserMsg

\* addToConversation(role, text)
addToConversation(role, text) ==
  /\ Len(conversationHistory) < MaxHist
  /\ lastTextInputRef' = [set |-> TRUE, text |-> text, timestamp |-> now]
  /\ conversationHistory' = Append(conversationHistory, Entry(role, text))
  /\ lastAppended' = [set |-> TRUE, role |-> role, text |-> text, timestamp |-> now]
  /\ lastUserMsg' = IF role = "user"
                    THEN [set |-> TRUE, text |-> text, timestamp |-> now]
                    ELSE lastUserMsg

\* case 'user_text'
UserText(text) ==
  /\ Receiving
  /\ IF /\ lastTextInputRef.set
        /\ lastTextInputRef.text = text
        /\ now - lastTextInputRef.timestamp < DedupWindow
     THEN UNCHANGED <<conversationHistory, lastTextInputRef, lastAppended, lastUserMsg>>
     ELSE addToConversation("user", text)
  /\ isWaitingForResponse' = TRUE
  /\ lastRecv' = [lastRecv EXCEPT ![text] = now]
  /\ lastOp' = [Op("user_text") EXCEPT !.text = text]
  /\ NoSend
  /\ UNCHANGED <<connVars, responseRef, currentResponse, userText, now,
                 modeVars, monitorVars, connHist, streamed, lastSend>>

\* Mutant of AssistantStream: the chunk replaces the buffer.
AssistantStream_Overwrites(text) ==
  /\ Receiving
  /\ Len(responseRef) < MaxBuf
  /\ isWaitingForResponse' = FALSE
  /\ responseRef' = text
  /\ currentResponse' = responseRef'
  /\ streamed' = Append(streamed, text)
  /\ lastOp' = [Op("assistant_stream") EXCEPT !.text = text]
  /\ NoSend
  /\ UNCHANGED <<connVars, conversationHistory, lastTextInputRef, userText, now,
                 modeVars, monitorVars, connHist, lastAppended, lastUserMsg, lastRecv, lastSend>>

\* case 'assistant_stream'
AssistantStream(text) ==
  /\ Receiving
  /\ Len(responseRef) < MaxBuf
  /\ isWaitingForResponse' = FALSE
  /\ responseRef' = responseRef \o text
  /\ currentResponse' = responseRef'
  /\ streamed' = Append(streamed, text)
  /\ lastOp' = [Op("assistant_stream") EXCEPT !.text = text]
  /\ NoSend
  /\ UNCHANGED <<connVars, conversationHistory, lastTextInputRef, userText, now,
                 modeVars, monitorVars, connHist, lastAppended, lastUserMsg, lastRecv, lastSend>>

\* case 'assistant_final'
AssistantFinal(text) ==
  /\ Receiving
  /\ addToConversation("assistant", text)
  /\ responseRef' = ""
  /\ currentResponse' = ""
  /\ isWaitingForResponse' = FALSE
  /\ mode' = "idle"
  /\ intensity' = 50
  /\ streamed' = <<>>
  /\ lastOp' = [Op("assistant_final") EXCEPT !.text = text, !.buffer = responseRef]
  /\ NoSend
  /\ UNCHANGED <<connVars, userText, now, micEnabled, monitorVars, connHist, lastRecv,
                 lastSend>>

\* Mutant of ModeChange: listening and idle start the monitoring whatever
\* micEnabled holds.
ModeChange_StartsRegardless(m, p) ==
  /\ Receiving
  /\ mode' = m
  /\ IF m = "listening" THEN
       /\ intensity' = 30
       /\ StartListening("mode")
     ELSE IF m = "speaking" THEN
       /\ intensity' = IF p = {} \/ p = {0} THEN 80 ELSE CHOOSE v \in p : TRUE
       /\ StopListening
     ELSE IF m = "idle" THEN
       /\ intensity' = 50
       /\ StartListening("mode")
     ELSE
       /\ intensity' = 50
       /\ StopListening
  /\ lastOp' = [Op("mode_change") EXCEPT !.mode = m, !.payload = p]
  /\ NoSend
  /\ UNCHANGED <<connVars, chatVars, micEnabled, connHist, chatHist>>

\* case 'mode_change': data.mode = m, data.intensity = p.  The handler is the
\* one of the render before the event, so the startListening it calls
\* captures the mode of before the event.
ModeChange(m, p) ==
  /\ Receiving
  /\ mode' = m
  /\ IF m = "listening" THEN
       /\ intensity' = 30
       /\ IF micEnabled THEN StartListening("mode") ELSE UNCHANGED monitorVars
     ELSE IF m = "speaking" THEN
       /\ intensity' = IF p = {} \/ p = {0} THEN 80 ELSE CHOOSE v \in p : TRUE
       /\ StopListening
     ELSE IF m = "idle" THEN
       /\ intensity' = 50
       /\ IF micEnabled THEN StartListening("mode") ELSE UNCHANGED monitorVars
     ELSE
       /\ intensity' = 50
       /\ StopListening
  /\ lastOp' = [Op("mode_change") EXCEPT !.mode = m, !.payload = p]
  /\ NoSend
  /\ UNCHANGED <<connVars, chatVars, micEnabled, connHist, chatHist>>

\* Mutant of AudioLevel: data.mode is not looked at.
AudioLevel_NoGate(m, level) ==
  /\ Receiving
  /\ intensity' = Max(30, (level * 120) \div 100)
  /\ lastOp' = [Op("audio_level") EXCEPT !.mode = m, !.level = level]
  /\ NoSend
  /\ UNCHANGED <<connVars, chatVars, mode, micEnabled, monitorVars, connHist, chatHist>>

\* case 'audio_level': data.mode = m, data.level = level
AudioLevel(m, level) ==
  /\ Receiving
  /\ intensity' = IF m = "speaking" THEN Max(30, (level * 120) \div 100) ELSE intensity
  /\ lastOp' = [Op("audio_level") EXCEPT !.mode = m, !.level = level]
  /\ NoSend
  /\ UNCHANGED <<connVars, chatVars, mode, micEnabled, monitorVars, connHist, chatHist>>

\* Date.now() advances.
Tick ==
  /\ now < MaxNow
  /\ now' = now + TickMs
  /\ lastOp' = Op("tick")
  /\ NoSend
  /\ UNCHANGED <<connVars, conversationHistory, lastTextInputRef, responseRef,
                 currentResponse, isWaitingForResponse, userText,
                 modeVars, monitorVars, connHist, chatHist>>

\* ------------------------------------------------------------ user actions
\* String.prototype.trim(): leading and trailing white space is removed.
RECURSIVE TrimStart(_)
TrimStart(chars) ==
  IF chars # <<>> /\ Head(chars) = " " THEN TrimStart(Tail(chars)) ELSE chars
RECURSIVE TrimEnd(_)
TrimEnd(chars) ==
  IF chars # <<>> /\ chars[Len(chars)] = " "
  THEN TrimEnd(SubSeq(chars, 1, Len(chars) - 1)) ELSE chars
Trim(chars) == TrimEnd(TrimStart(chars))

\* The string a sequence of characters spells.
RECURSIVE Str(_)
Str(chars) == IF chars = <<>> THEN "" ELSE Head(chars) \o Str(Tail(chars))

\* The user edits the input field: setUserText(e.target.value).
SetUserText(chars) ==
  /\ mounted = "mounted"
  /\ userText # chars
  /\ userText' = chars
  /\ lastOp' = Op("input")
  /\ NoSend
  /\ UNCHANGED <<connVars, conversationHistory, lastTextInputRef, responseRef,
                 currentResponse, isWaitingForResponse, now,
                 modeVars, monitorVars, connHist, chatHist>>

\* sendTextMessage()
SendTextMessage ==
  /\ mounted = "mounted"
  /\ IF Trim(userText) # <<>> /\ isConnected THEN
       LET message == Str(Trim(userText)) IN
       /\ addToConversation("user", message)
       /\ isWaitingForResponse' = TRUE
       /\ sendWebSocketMessage(Msg("text_input", message))
       /\ userText' = <<>>
       /\ lastSend' = [set |-> TRUE, text |-> message, timestamp |-> now,
                       len |-> Len(conversationHistory) + 1]
     ELSE
       /\ NoSend
       /\ UNCHANGED <<conversationHistory, lastTextInputRef, isWaitingForResponse,
                      userText, lastAppended, lastUserMsg, lastSend>>
  /\ lastOp' = Op("send_text")
  /\ UNCHANGED <<connVars, responseRef, currentResponse, now,
                 modeVars, monitorVars, connHist, lastRecv, streamed>>

\* Mutant of ClearConversation: responseRef.current is not emptied.
ClearConversation_KeepsBuffer ==
  /\ mounted = "mounted"
  /\ conversationHistory' = <<>>
  /\ currentResponse' = ""
  /\ UNCHANGED responseRef
  /\ streamed' = <<>>
  /\ lastOp' = [Op("clear") EXCEPT !.buffer = responseRef]
  /\ NoSend
  /\ UNCHANGED <<connVars, lastTextInputRef, isWaitingForResponse, userText, now,
                 modeVars, monitorVars, connHist, lastAppended, lastUserMsg, lastRecv, lastSend>>

\* clearConversation()
ClearConversation ==
  /\ mounted = "mounted"
  /\ conversationHistory' = <<>>
  /\ currentResponse' = ""
  /\ responseRef' = ""
  /\ streamed' = <<>>
  /\ lastOp' = [Op("clear") EXCEPT !.buffer = responseRef]
  /\ NoSend
  /\ UNCHANGED <<connVars, lastTextInputRef, isWaitingForResponse, userText, now,
                 modeVars, monitorVars, connHist, lastAppended, lastUserMsg, lastRecv, lastSend>>

\* An open connection with the inbound conversation events and the clock.
NextChat ==
  \/ Mount
  \/ \E s \in Slots : SocketOpen(s)
  \/ SettleFire
  \/ \E t \in Texts : UserText(t)
  \/ \E t \in Texts : AssistantStream(t)
  \/ \E t \in Texts : AssistantFinal(t)
  \/ Tick

SpecChat == Init /\ [][NextChat]_vars

\* The streamed answer, its final, the mode events and the clearing of the
\* conversation.
NextReply ==
  \/ Mount
  \/ \E s \in Slots : SocketOpen(s)
  \/ \E m \in Modes : ModeChange(m, {})
  \/ \E t \in Texts : AssistantStream(t)
  \/ \E t \in Texts : AssistantFinal(t)
  \/ ClearConversation

SpecReply == Init /\ [][NextReply]_vars

\* A conversation over a connection that is lost and made again.
NextResume ==
  \/ Mount
  \/ TimerFire
  \/ \E s \in Slots : SocketOpen(s)
  \/ SettleFire
  \/ \E s \in Slots, clean \in BOOLEAN : SocketClosed(s, clean)
  \/ \E t \in Texts : UserText(t)
  \/ \E t \in Texts : AssistantStream(t)

SpecResume == Init /\ [][NextResume]_vars

\* The text input and its echo over a connection that opens and closes.
NextSend ==
  \/ Mount
  \/ \E s \in Slots : SocketOpen(s)
  \/ \E s \in Slots : SocketStartClosing(s)
  \/ \E s \in Slots, clean \in BOOLEAN : SocketClosed(s, clean)
  \/ \E chars \in UserInputs : SetUserText(chars)
  \/ SendTextMessage
  \/ \E t \in Texts : UserText(t)
  \/ Tick

SpecSend == Init /\ [][NextSend]_vars

\* An open connection with the mode and audio events and the microphone.
NextAudio ==
  \/ Mount
  \/ \E s \in Slots : SocketOpen(s)
  \/ \E m \in Modes, p \in PayloadIntensities :
       (m # "speaking" => p = {}) /\ ModeChange(m, p)
  \/ \E m \in AudioLevelModes, level \in Levels : AudioLevel(m, level)
  \/ ToggleMicrophone
  \/ \E i \in 1..Len(starts), granted \in BOOLEAN, level \in Levels :
       GetUserMediaSettled(i, granted, level)
  \/ \E i \in 1..Len(loops), level \in Levels : AnimationFrame(i, level)

SpecAudio == Init /\ [][NextAudio]_vars

\* A turn of the conversation: the mode events, the final answer and the
\* microphone, with the permission for the microphone granted.
NextTurn ==
  \/ Mount
  \/ \E s \in Slots : SocketOpen(s)
  \/ \E m \in Modes : ModeChange(m, {})
  \/ \E t \in Texts : AssistantFinal(t)
  \/ ToggleMicrophone
  \/ \E i \in 1..Len(starts) : GetUserMediaSettled(i, TRUE, 0)

SpecTurn == Init /\ [][NextTurn]_vars

\* ------------------------------------------------------------------ claims
TimerCount ==
  orphanTimers +
  (IF reconnectTimeoutRef.set /\ reconnectTimeoutRef.timeout = "pending" THEN 1 ELSE 0)
NoNewSocket == \A s \in Slots : readyState'[s] = "CONNECTING" => readyState[s] = "CONNECTING"

\* C1: in every reachable state at most one socket of the controller is
\* CONNECTING or OPEN, and a connectToJarvis called while isConnectingRef is
\* set or wsRef.current is CONNECTING or OPEN creates no socket.
C1_AtMostOneConnection ==
  /\ [](Cardinality(Alive) <= 1)
  /\ [][(/\ lastOp'.op \in {"mount", "timer"}
         /\ isConnectingRef \/ (wsRef # 0 /\ readyState[wsRef] \in {"CONNECTING", "OPEN"}))
        => NoNewSocket]_vars
\* C1 witness: a remount has created a new socket while the socket of the
\* previous mount is still closing.
C1_Witness ==
  /\ lastOp.op = "mount"
  /\ wsRef # 0 /\ readyState[wsRef] = "CONNECTING"
  /\ \E s \in Slots : readyState[s] = "CLOSING"

\* C2: once 20 consecutive unclean closes have happened with no open in
\* between, no further connection attempt is made.
C2_ReconnectBounded == [][uncleanCloses >= maxReconnectAttempts => NoNewSocket]_vars

\* C3: the N-th consecutive unclean close schedules its reconnect after
\* min(10000 * 1.5^(N-1), 120000) ms and leaves the attempt count at N.
RECURSIVE ClaimedDelay(_)
ClaimedDelay(n) ==
  IF n <= 1 THEN CloseBaseDelay * DelayScale
  ELSE Min((ClaimedDelay(n - 1) * 3) \div 2, CloseMaxDelay * DelayScale)
C3_BackoffDelay ==
  (lastOp.op = "onclose" /\ ~lastOp.clean /\ uncleanCloses < MaxFailures) =>
    /\ scheduledDelay = ClaimedDelay(uncleanCloses)
    /\ reconnectTimeoutRef.set /\ reconnectTimeoutRef.attempt = uncleanCloses

\* C6: while unmounted no reconnect timer is pending, no socket is created
\* and nothing is transmitted; a second cleanup changes nothing.
C6_TeardownQuiet ==
  /\ [](mounted = "unmounted" => TimerCount = 0)
  /\ [][(mounted = "unmounted" /\ mounted' = "unmounted") =>
          (NoNewSocket /\ sent' = <<>>)]_vars
  /\ [][(mounted = "unmounted" /\ lastOp'.op = "teardown") => UNCHANGED progVars]_vars
\* C6 witness: the 100 ms timer of an onopen fired after the cleanup.
C6_Witness == mounted = "unmounted" /\ lastOp.op = "settle"

\* C8: a close event schedules a reconnect timer iff it is unclean and the
\* socket still has its onclose handler; a clean close leaves the ref alone.
C8_ReconnectIffUnclean ==
  [][/\ (lastOp'.op = "onclose" /\ lastOp'.clean) =>
          (TimerCount' = TimerCount /\ reconnectTimeoutRef' = reconnectTimeoutRef)
     /\ (lastOp'.op = "onclose" /\ ~lastOp'.clean) =>
          (TimerCount' = TimerCount + 1 /\ reconnectTimeoutRef'.timeout = "pending")
     /\ lastOp'.op = "closed" => TimerCount' = TimerCount]_vars
\* C8 witness: an open socket closed cleanly and no timer is pending.
C8_Witness ==
  /\ lastOp.op = "onclose" /\ lastOp.clean
  /\ reconnectTimeoutRef.set /\ reconnectTimeoutRef.attempt = 0
  /\ TimerCount = 0

\* C4: when the startListening awaited by toggleMicrophone fails, the
\* toggle does not take effect: micEnabled is unchanged and no enable_mic
\* is sent.
C4_FailedStartLeavesMicDisabled ==
  [][(lastOp'.op = "getUserMedia" /\ lastOp'.caller = "toggle" /\ ~lastOp'.ok) =>
       /\ micEnabled' = micEnabled
       /\ \A k \in 1..Len(sent') : sent'[k].type # "enable_mic"]_vars

\* C7: sendWebSocketMessage returns true and transmits exactly one message
\* when wsRef.current is OPEN; otherwise it returns false, transmits nothing
\* and leaves the connection state alone.
C7_SendOnlyWhenOpen ==
  [][sendRet' # "none" =>
       IF CanSend THEN sendRet' = "true" /\ Len(sent') = 1
       ELSE sendRet' = "false" /\ sent' = <<>> /\ UNCHANGED connVars]_vars
\* C7 witness: a send was refused while the socket was closing.
C7_Witness == sendRet = "false" /\ wsRef # 0 /\ readyState[wsRef] = "CLOSING"

\* C5 as stated: an audio_level event leaves intensity unchanged unless the
\* current mode is speaking.
C5_GatedOnCurrentMode ==
  [][(lastOp'.op = "audio_level" /\ mode # "speaking") => intensity' = intensity]_vars
\* C5 amended: an audio_level event is gated on the mode its payload
\* carries, not on the current mode: with payload mode speaking intensity
\* becomes max(0.3, level * 1.2), with any other payload mode it is unchanged.
C5_GatedOnPayloadMode ==
  [][lastOp'.op = "audio_level" =>
       intensity' = IF lastOp'.mode = "speaking"
                    THEN Max(30, (lastOp'.level * 120) \div 100)
                    ELSE intensity]_vars
\* C5 witness: mode is listening and audio_level{speaking, 0.9} set intensity.
C5_Witness ==
  /\ lastOp.op = "audio_level" /\ lastOp.mode = "speaking" /\ lastOp.level = 90
  /\ mode = "listening"
  /\ intensity = 108

\* C9 as stated: a user_text whose text was received in a user_text less
\* than 2000 ms before adds no entry.
C9_NoDuplicateOfAnyPrior ==
  [][(/\ lastOp'.op = "user_text"
      /\ lastRecv[lastOp'.text] >= 0
      /\ now - lastRecv[lastOp'.text] < DedupWindow) =>
       Len(conversationHistory') = Len(conversationHistory)]_vars
\* C9 amended: a user_text whose text is that of the entry appended last,
\* that entry being a user message appended less than 2000 ms before, adds
\* no entry.
C9_NoDuplicateOfLastEntry ==
  [][(/\ lastOp'.op = "user_text"
      /\ lastAppended.set /\ lastAppended.role = "user"
      /\ lastAppended.text = lastOp'.text
      /\ now - lastAppended.timestamp < DedupWindow) =>
       conversationHistory' = conversationHistory]_vars
\* C9 witness: a user_text repeated one tick after its entry was appended.
C9_Witness ==
  /\ lastOp.op = "user_text"
  /\ lastAppended.set /\ lastAppended.role = "user"
  /\ lastAppended.text = lastOp.text
  /\ lastAppended.timestamp = now - TickMs
  /\ Len(conversationHistory) = 1

\* C10: a user_text sets the awaiting-response flag, and appends one user
\* entry whenever its text differs from the user message appended last or
\* that message is 2000 ms old or older.
C10_SuppressedOnlyAsUserDuplicate ==
  [][lastOp'.op = "user_text" =>
       /\ isWaitingForResponse'
       /\ (\/ ~lastUserMsg.set
           \/ lastUserMsg.text # lastOp'.text
           \/ now - lastUserMsg.timestamp >= DedupWindow) =>
            conversationHistory' =
              Append(conversationHistory, Entry("user", lastOp'.text))]_vars

\* The in-order concatenation of a sequence of texts.
RECURSIVE Concatenation(_)
Concatenation(texts) ==
  IF texts = <<>> THEN "" ELSE Head(texts) \o Concatenation(Tail(texts))

\* C11 as stated: the buffer is the concatenation of the texts streamed since
\* it was emptied last, and an assistant_final that follows streamed texts
\* appends one assistant entry holding the buffered response, empties the
\* buffer, clears the awaiting flag and sets mode idle and intensity 0.5.
C11_FinalAppendsBuffer ==
  /\ [](responseRef = Concatenation(streamed) /\ currentResponse = responseRef)
  /\ [][lastOp'.op = "assistant_final" =>
          /\ streamed # <<>> =>
               conversationHistory' =
                 Append(conversationHistory, Entry("assistant", responseRef))
          /\ responseRef' = "" /\ currentResponse' = ""
          /\ ~isWaitingForResponse'
          /\ mode' = "idle" /\ intensity' = 50]_vars
\* C11 amended: the buffer is the concatenation of the texts streamed since
\* it was emptied last, and assistant_final appends one assistant entry
\* holding the text of its own payload, whatever the buffer holds, empties
\* the buffer, clears the awaiting flag and sets mode idle and intensity 0.5.
C11_FinalAppendsPayloadText ==
  /\ [](responseRef = Concatenation(streamed) /\ currentResponse = responseRef)
  /\ [][lastOp'.op = "assistant_final" =>
          /\ conversationHistory' =
               Append(conversationHistory, Entry("assistant", lastOp'.text))
          /\ responseRef' = "" /\ currentResponse' = ""
          /\ ~isWaitingForResponse'
          /\ mode' = "idle" /\ intensity' = 50]_vars
\* C11 witness: "a" then "b" were streamed and the final carried "b".
C11_Witness ==
  /\ lastOp.op = "assistant_final" /\ lastOp.buffer = "ab" /\ lastOp.text = "b"
  /\ conversationHistory = <<Entry("assistant", "b")>>
  /\ responseRef = "" /\ streamed = <<>>
  /\ mode = "idle" /\ intensity = 50

\* C12: a mode_change sets mode to the mode of the event and intensity to
\* its default: idle 0.5, listening 0.3, speaking the payload intensity when
\* the payload carries one (0 included) and 0.8 otherwise, any other mode 0.5.
C12_ModeDefaults ==
  [][lastOp'.op = "mode_change" =>
       /\ mode' = lastOp'.mode
       /\ intensity' =
            IF lastOp'.mode = "listening" THEN 30
            ELSE IF lastOp'.mode = "speaking"
                 THEN IF lastOp'.payload = {} THEN 80
                      ELSE CHOOSE v \in lastOp'.payload : TRUE
            ELSE 50]_vars

\* C13: intensity is within [0, 1] in every reachable state.
C13_IntensityBounded == intensity >= 0 /\ intensity <= 100

\* C14: sendTextMessage takes effect only when isConnected is set and the
\* trimmed input is not empty; then it appends one user entry with the
\* trimmed text, sets the awaiting flag, transmits one text_input with the
\* trimmed text and empties the input; otherwise history, flag and input are
\* unchanged and nothing is transmitted.
C14_SendTextEffect ==
  [][lastOp'.op = "send_text" =>
       IF isConnected /\ Trim(userText) # <<>>
       THEN /\ conversationHistory' =
                 Append(conversationHistory, Entry("user", Str(Trim(userText))))
            /\ isWaitingForResponse'
            /\ sent' = <<Msg("text_input", Str(Trim(userText)))>>
            /\ userText' = <<>>
       ELSE /\ UNCHANGED <<conversationHistory, isWaitingForResponse, userText>>
            /\ sent' = <<>>]_vars

\* C15: clearConversation leaves the history and the streaming buffer empty,
\* transmits nothing and leaves the connection state, mode, intensity and
\* micEnabled as they were.
C15_ClearEmptiesHistoryAndBuffer ==
  [][lastOp'.op = "clear" =>
       /\ conversationHistory' = <<>>
       /\ responseRef' = "" /\ currentResponse' = ""
       /\ sent' = <<>>
       /\ UNCHANGED <<connVars, mode, intensity, micEnabled>>]_vars
\* C15 witness: the conversation was cleared in mode speaking with an entry
\* appended and "ab" in the streaming buffer.
C15_Witness ==
  /\ lastOp.op = "clear" /\ lastOp.buffer = "ab"
  /\ lastAppended.set
  /\ conversationHistory = <<>> /\ responseRef = "" /\ currentResponse = ""
  /\ mode = "speaking" /\ isConnected

\* C16: every onopen sets the attempt count to 0 and starts one settle
\* timer; never more than one settle timer is pending; when the timer fires
\* and the socket that opened is still OPEN exactly one event is sent,
\* enable_mic if micEnabled holds at that moment and disable_mic if not;
\* when that socket is no longer OPEN nothing is sent.
C16_OpenResetsAndSendsMicState ==
  /\ [](settleTimers <= 1)
  /\ [][lastOp'.op = "onopen" =>
          /\ reconnectTimeoutRef'.set /\ reconnectTimeoutRef'.attempt = 0
          /\ settleTimers' = settleTimers + 1]_vars
  /\ [][lastOp'.op = "settle" =>
          sent' = IF lastOpened # 0 /\ readyState[lastOpened] = "OPEN"
                  THEN <<Msg(IF micEnabled THEN "enable_mic" ELSE "disable_mic", "")>>
                  ELSE <<>>]_vars
\* C16 witness: the microphone was enabled before the socket opened and the
\* settle timer of that open sent enable_mic.
C16_Witness ==
  /\ lastOp.op = "settle"
  /\ sent = <<Msg("enable_mic", "")>>
  /\ micEnabled
  /\ lastMicSent = "enable_mic"
  /\ reconnectTimeoutRef.set /\ reconnectTimeoutRef.attempt = 0

\* C17: a mode_change to listening or idle calls startListening iff
\* micEnabled holds and stops nothing; a mode_change to speaking or to any
\* other mode calls stopListening whatever micEnabled holds.
C17_ModeChangeStartsOrStops ==
  [][lastOp'.op = "mode_change" =>
       IF lastOp'.mode \in {"listening", "idle"}
       THEN IF micEnabled
            THEN /\ Len(starts') = Len(starts) + 1
                 /\ starts'[Len(starts')].caller = "mode"
                 /\ UNCHANGED <<isListening, microphoneRef, loops, animationFrameRef>>
            ELSE UNCHANGED monitorVars
       ELSE /\ ~isListening' /\ ~microphoneRef'
            /\ audioContext' = "null"
            /\ animationFrameRef' = 0
            /\ animationFrameRef # 0 => Len(loops') = Len(loops) - 1
            /\ starts' = starts]_vars
\* C17 witness: with the microphone enabled and the monitoring running, a
\* mode_change to listening has requested a start and stopped nothing.
C17_Witness ==
  /\ lastOp.op = "mode_change" /\ lastOp.mode = "listening"
  /\ micEnabled /\ isListening /\ loops # <<>>
  /\ starts # <<>> /\ starts[Len(starts)].caller = "mode"

\* C18: no loudness callback is delivered between a stopListening and the
\* next startListening.  (The context is null exactly from a stopListening,
\* or from the beginning, until the next startListening.)
C18_NoCallbackAfterStop == lastOp.op = "frame" => audioContext # "null"

\* C19: while wsRef.current is OPEN and the settle timer of its onopen has
\* fired, the last enable_mic / disable_mic transmitted since that onopen
\* is enable_mic iff micEnabled holds.
C19_MicStateSynced ==
  (CanSend /\ settleTimers = 0) =>
    /\ lastOpened = wsRef
    /\ lastMicSent = IF micEnabled THEN "enable_mic" ELSE "disable_mic"
\* C19 witness: the microphone was enabled before the settle timer of a
\* second connection fired, and that timer sent enable_mic.
C19_Witness ==
  /\ CanSend /\ settleTimers = 0
  /\ lastOp.op = "settle"
  /\ micEnabled /\ lastMicSent = "enable_mic"
  /\ lastOpened > 1

\* C20, the case the claim names: when an assistant_final ends a speaking
\* phase while micEnabled holds (the monitoring having run before), mode is
\* idle and the monitoring is running again or a startListening is under
\* way, with no further mode_change or toggle.
C20_MonitoringAfterFinal ==
  [][(/\ lastOp'.op = "assistant_final"
      /\ mode = "speaking" /\ micEnabled /\ analyzerRef) =>
       /\ mode' = "idle"
       /\ isListening' \/ starts' # <<>>]_vars

\* C21: when a connection opens after the previous one closed with chunks
\* streamed and no assistant_final, the streaming buffer is empty and the
\* awaiting flag is clear.
C21_OpenStartsWithEmptyBuffer ==
  [][(lastOp'.op = "onopen" /\ streamed # <<>>) =>
       /\ responseRef' = "" /\ currentResponse' = ""
       /\ ~isWaitingForResponse']_vars

\* Part of C22: a user_text that echoes the text sendTextMessage appended
\* less than 2000 ms before, nothing appended since, adds no entry.
C22_EchoAddsNoEntry ==
  [][(/\ lastOp'.op = "user_text"
      /\ lastSend.set /\ lastSend.text = lastOp'.text
      /\ now - lastSend.timestamp < DedupWindow
      /\ Len(conversationHistory) = lastSend.len) =>
       conversationHistory' = conversationHistory]_vars

\* C22: the echo of a sent text adds no entry, and every user entry
\* sendTextMessage appends goes with exactly one text_input of the same text
\* transmitted by that step.
C22_SentOnceAndShownOnce ==
  /\ C22_EchoAddsNoEntry
  /\ [][(lastOp'.op = "send_text" /\ conversationHistory' # conversationHistory) =>
          /\ Len(conversationHistory') = Len(conversationHistory) + 1
          /\ conversationHistory'[Len(conversationHistory')].role = "user"
          /\ sent' = <<Msg("text_input",
                           conversationHistory'[Len(conversationHistory')].text)>>]_vars

====
